---- MODULE Spec2Model ----
(***************************************************************************)
(* A model of two parts of cocktail:                                       *)
(*   - core/database/data_classes.py: the deserialisation of one page of   *)
(*     the catalog API into rows (deserialise_items and what it calls);    *)
(*   - ui/download/controller.py: ModelDownloadController, its download    *)
(*     entry points and the readyRead / finished callbacks of the replies  *)
(*     it starts.                                                         *)
(* PageSpec applies deserialise_items to every page of a bounded set.      *)
(* Spec runs the download controller against a database snapshot.          *)
(***************************************************************************)
EXTENDS Integers, Sequences, FiniteSets, TLC

VARIABLES
    page,       \* the input of deserialise_items: a list of model JSON objects
    now,        \* the clock when deserialise_items is called
    tick,       \* how many clock readings return now before the clock advances
    result,     \* the Page deserialise_items returned, NoPage before the call
    file_table, \* the model_file table of the database
    fs,         \* the files on disk: path -> content
    dirs,       \* the directories os.makedirs has created
    replies,    \* every QNetworkReply the network manager has handed out
    widgets,    \* the download widgets of the view
    last,       \* the last call of download(): its argument and how it ended
    ncalls      \* the number of download() calls so far

vars == <<page, now, tick, result, file_table, fs, dirs, replies, widgets, last, ncalls>>

dataVars == <<page, now, tick, result>>
ctlVars == <<file_table, fs, dirs, replies, widgets, last, ncalls>>

----------------------------------------------------------------------------
(* Bounds of the model *)

\* JSON nodes of an input page: models, versions, files, images and the
\* date fields that are present
MaxNodes == 6

\* calls of ModelDownloadController.download
MaxCalls == 2

\* readyRead signals over all replies (chunks of data that arrive)
MaxChunks == 2

----------------------------------------------------------------------------
(* Generic helpers *)

Max(S) == CHOOSE x \in S : \A y \in S : y <= x

Range(s) == {s[i] : i \in 1..Len(s)}

RECURSIVE Concat(_)
Concat(ss) == IF ss = <<>> THEN <<>> ELSE Head(ss) \o Concat(Tail(ss))

Select(s, Test(_)) == SelectSeq(s, Test)

----------------------------------------------------------------------------
(* JSON input of data_classes.py *)

\* A date field of the API: missing or null (None), the empty string, or an
\* ISO-8601 string with a wall-clock value and a zone designator.
None == [tag |-> "None", wall |-> 0, zone |-> ""]
EmptyStr == [tag |-> "str", wall |-> 0, zone |-> ""]
Iso(w, z) == [tag |-> "iso", wall |-> w, zone |-> z]

\* ISO strings whose order as timestamps differs from the order of their
\* wall-clock values
DateStrs == {Iso(5, "Z"), Iso(6, "+02:00")}
DateVals == {None, EmptyStr} \cup DateStrs

\* Python truthiness of a date field: None and "" are falsy
Truthy(d) == d.tag = "iso"

ZoneOffset(z) == IF z = "+02:00" THEN 2 ELSE 0

\* parse_timestamp: "Z" is replaced by "+00:00", then the string is read as
\* ISO-8601 and converted to a POSIX timestamp (wall clock minus zone offset)
parse_timestamp(date_str) ==
    LET zone == IF date_str.zone = "Z" THEN "+00:00" ELSE date_str.zone
    IN date_str.wall - ZoneOffset(zone)

\* util.is_file_safe(data): the verdict of the safety check on a file's JSON.
\* The file's JSON carries the scan outcome the verdict is computed from.
is_file_safe(data) == data.scanOk

(* The bounded set of input pages.  A shape is a JSON object without its ids; *)
(* its weight is the number of its nodes.  A kind K names the values the      *)
(* shapes draw from: K.dates for the date fields, K.scans for the outcome of  *)
(* the safety scan, K.images for the number of images of a version.           *)

DateW(d) == IF d = None THEN 0 ELSE 1

FileW(f) == 1 + DateW(f.scannedAt)

RECURSIVE FilesW(_)
FilesW(fl) == IF fl = <<>> THEN 0 ELSE FileW(Head(fl)) + FilesW(Tail(fl))

FileShapes(n, K) == {f \in [scanOk : K.scans, scannedAt : K.dates] : FileW(f) <= n}

RECURSIVE FileLists(_, _)
FileLists(n, K) ==
    {<<>>} \cup UNION {{<<f>> \o r : r \in FileLists(n - FileW(f), K)} : f \in FileShapes(n, K)}

VersionW(v) ==
    1 + DateW(v.updatedAt) + DateW(v.publishedAt) + DateW(v.createdAt)
      + FilesW(v.files) + v.nimages

RECURSIVE VersionsW(_)
VersionsW(vl) == IF vl = <<>> THEN 0 ELSE VersionW(Head(vl)) + VersionsW(Tail(vl))

VersionShapes(n, K) ==
    UNION {
      UNION {
        {[updatedAt |-> d[1], publishedAt |-> d[2], createdAt |-> d[3],
          files |-> fl, nimages |-> k] :
            k \in {x \in K.images :
                     x <= n - 1 - DateW(d[1]) - DateW(d[2]) - DateW(d[3]) - FilesW(fl)}}
        : fl \in FileLists(n - 1 - DateW(d[1]) - DateW(d[2]) - DateW(d[3]), K)}
      : d \in {x \in K.dates \X K.dates \X K.dates :
                 DateW(x[1]) + DateW(x[2]) + DateW(x[3]) <= n - 1}}

RECURSIVE VersionLists(_, _)
VersionLists(n, K) ==
    {<<>>} \cup UNION {{<<v>> \o r : r \in VersionLists(n - VersionW(v), K)} :
                          v \in VersionShapes(n, K)}

ModelW(m) == 1 + VersionsW(m.modelVersions)

ModelShapes(n, K) ==
    IF n < 1 THEN {} ELSE {[modelVersions |-> vl] : vl \in VersionLists(n - 1, K)}

RECURSIVE ModelLists(_, _)
ModelLists(n, K) ==
    {<<>>} \cup UNION {{<<m>> \o r : r \in ModelLists(n - ModelW(m), K)} :
                          m \in ModelShapes(n, K)}

\* Pages that vary in structure: any number of models, versions, files (safe
\* or not) and images, no date field present
StructKind == [dates |-> {None}, scans |-> BOOLEAN, images |-> 0..MaxNodes]

\* Pages that vary in their date fields: one model, its versions and files
TimeKind == [dates |-> DateVals, scans |-> {TRUE}, images |-> {0}]

PageShapes ==
    ModelLists(MaxNodes, StructKind) \cup {<<m>> : m \in ModelShapes(MaxNodes, TimeKind)}

\* The ids of a page: model ids are distinct (ascending or descending in the
\* page), a version's id is unique to the version, a file's or image's id is
\* unique to it.
FileJson(vid, k, f) ==
    [id |-> 10 * vid + k, scanOk |-> f.scanOk, scannedAt |-> f.scannedAt]

ImageJson(vid, k) == [id |-> 10 * vid + k]

VersionJson(mid, j, v) ==
    [id |-> 10 * mid + j,
     updatedAt |-> v.updatedAt, publishedAt |-> v.publishedAt, createdAt |-> v.createdAt,
     files |-> [k \in 1..Len(v.files) |-> FileJson(10 * mid + j, k, v.files[k])],
     images |-> [k \in 1..v.nimages |-> ImageJson(10 * mid + j, k)]]

ModelJson(mid, m) ==
    [id |-> mid,
     modelVersions |-> [j \in 1..Len(m.modelVersions) |-> VersionJson(mid, j, m.modelVersions[j])]]

Pages ==
    UNION {{[i \in 1..Len(ml) |-> ModelJson(i, ml[i])],
            [i \in 1..Len(ml) |-> ModelJson(Len(ml) + 1 - i, ml[i])]} : ml \in PageShapes}

----------------------------------------------------------------------------
(* data_classes.py *)

EmptyPage == [models |-> <<>>, versions |-> <<>>, images |-> <<>>, files |-> <<>>]

\* The value of result before deserialise_items has returned
NoPage == [returned |-> FALSE, page |-> EmptyPage]

\* The position of a clock reading in the order deserialise_items makes them:
\* the reading for version vi of the mi-th model of the page (vi = 0: the
\* reading Model.from_json makes itself).
ReadingAt(mi, vi) == (mi - 1) * (MaxNodes + 1) + vi + 1

\* datetime.datetime.now().timestamp(): the clock does not go back; clk.tick
\* readings return clk.now, the later ones clk.now + 1.
datetime_now(clk, k) == IF k <= clk.tick THEN clk.now ELSE clk.now + 1

\* One iteration of the loop of iter_model_timestamps: the timestamp yielded
\* for one version
\* version_timestamp with createdAt consulted before publishedAt
version_timestamp_created_first(version, clk, k) ==
    LET scanned == [i \in 1..Len(version.files) |-> version.files[i].scannedAt]
        file_timestamps == {parse_timestamp(scanned[i]) :
                               i \in {j \in 1..Len(scanned) : Truthy(scanned[j])}}
    IN IF Truthy(version.updatedAt) THEN parse_timestamp(version.updatedAt)
       ELSE IF Truthy(version.createdAt) THEN parse_timestamp(version.createdAt)
       ELSE IF Truthy(version.publishedAt) THEN parse_timestamp(version.publishedAt)
       ELSE IF file_timestamps # {} THEN Max(file_timestamps)
       ELSE datetime_now(clk, k)

version_timestamp(version, clk, k) ==
    LET updated_at == version.updatedAt
        published_at == version.publishedAt
        created_at == version.createdAt
        scanned == [i \in 1..Len(version.files) |-> version.files[i].scannedAt]
        file_timestamps == {parse_timestamp(scanned[i]) :
                               i \in {j \in 1..Len(scanned) : Truthy(scanned[j])}}
    IN IF Truthy(updated_at) THEN parse_timestamp(updated_at)
       ELSE IF Truthy(published_at) THEN parse_timestamp(published_at)
       ELSE IF Truthy(created_at) THEN parse_timestamp(created_at)
       ELSE IF file_timestamps # {} THEN Max(file_timestamps)
       ELSE datetime_now(clk, k)

iter_model_timestamps(model_data, clk, mi) ==
    [vi \in 1..Len(model_data.modelVersions) |->
        version_timestamp(model_data.modelVersions[vi], clk, ReadingAt(mi, vi))]

Model_from_json(data, clk, mi) ==
    LET timestamps == iter_model_timestamps(data, clk, mi)
        timestamp == IF Len(timestamps) > 0 THEN Max(Range(timestamps))
                     ELSE datetime_now(clk, ReadingAt(mi, 0))
    IN [id |-> data.id, updated_at |-> timestamp]

ModelFile_from_json(model_id, model_version_id, data) ==
    [id |-> data.id, model_id |-> model_id, model_version_id |-> model_version_id,
     safe |-> is_file_safe(data)]

ModelImage_from_json(model_id, model_version_id, data) ==
    [id |-> data.id, model_id |-> model_id, model_version_id |-> model_version_id]

\* ModelVersion.from_json with the version's own id stored as model_id
ModelVersion_from_json_own_id(model_id, data) ==
    [id |-> data.id, model_id |-> data.id]

ModelVersion_from_json(model_id, data) ==
    [id |-> data.id, model_id |-> model_id]

IsSafe(file) == file.safe

\* items_from_model_version without the filter on file.safe
items_from_model_version_unfiltered(model_id, data) ==
    LET version == ModelVersion_from_json(model_id, data)
    IN [version |-> version,
        files |-> [i \in 1..Len(data.files) |->
                      ModelFile_from_json(version.model_id, version.id, data.files[i])],
        images |-> [i \in 1..Len(data.images) |->
                      ModelImage_from_json(version.model_id, version.id, data.images[i])]]

items_from_model_version(model_id, data) ==
    LET version == ModelVersion_from_json(model_id, data)
        all_files == [i \in 1..Len(data.files) |->
                        ModelFile_from_json(version.model_id, version.id, data.files[i])]
        files == SelectSeq(all_files, IsSafe)
        images == [i \in 1..Len(data.images) |->
                        ModelImage_from_json(version.model_id, version.id, data.images[i])]
    IN [version |-> version, files |-> files, images |-> images]

\* items_from_model_json without the check for an empty version list
items_from_model_json_keep_empty(data, clk, mi) ==
    LET model == Model_from_json(data, clk, mi)
        items == [i \in 1..Len(data.modelVersions) |->
                     items_from_model_version(model.id, data.modelVersions[i])]
    IN [kept |-> TRUE, model |-> model,
        versions |-> [i \in 1..Len(items) |-> items[i].version],
        files |-> Concat([i \in 1..Len(items) |-> items[i].files]),
        images |-> Concat([i \in 1..Len(items) |-> items[i].images])]

\* items_from_model_json returns (None, None, None, None) for a model without
\* versions: kept |-> FALSE
items_from_model_json(data, clk, mi) ==
    LET model == Model_from_json(data, clk, mi)
        items == [i \in 1..Len(data.modelVersions) |->
                     items_from_model_version(model.id, data.modelVersions[i])]
        versions == [i \in 1..Len(items) |-> items[i].version]
        files == Concat([i \in 1..Len(items) |-> items[i].files])
        images == Concat([i \in 1..Len(items) |-> items[i].images])
    IN IF Len(versions) = 0
       THEN [kept |-> FALSE, model |-> model, versions |-> <<>>, files |-> <<>>, images |-> <<>>]
       ELSE [kept |-> TRUE, model |-> model, versions |-> versions, files |-> files,
             images |-> images]

IsKept(items) == items.kept

deserialise_items(pg, clk) ==
    LET all == [mi \in 1..Len(pg) |-> items_from_model_json(pg[mi], clk, mi)]
        kept == SelectSeq(all, IsKept)
    IN [models |-> [i \in 1..Len(kept) |-> kept[i].model],
        versions |-> Concat([i \in 1..Len(kept) |-> kept[i].versions]),
        images |-> Concat([i \in 1..Len(kept) |-> kept[i].images]),
        files |-> Concat([i \in 1..Len(kept) |-> kept[i].files])]

\* The clock readings at which the clock may advance during one call
TickPoints(pg) ==
    {0} \cup UNION {{ReadingAt(mi, vi) : vi \in 0..Len(pg[mi].modelVersions)} :
                       mi \in 1..Len(pg)}

----------------------------------------------------------------------------
(* Strings and paths of controller.py *)

\* A string is a sequence of tokens: a token is one of the characters the
\* code looks for (" ", "_", "."), the placeholder "{category}" of str.format,
\* or a run of other characters.  A path is absolute or relative to the
\* working directory and has a sequence of segments, each a string.

\* str(i) for a small number i
int_str(i) == <<"0", "1", "2", "3", "4", "5", "6", "7", "8", "9">>[i + 1]

\* str.replace(' ', '_')
replace_space(str) == [i \in 1..Len(str) |-> IF str[i] = " " THEN "_" ELSE str[i]]

Path(abs, segs) == [abs |-> abs, segs |-> segs]

\* os.path.isabs
isabs(path) == path.abs

\* os.path.join(a, b) for a relative b given as segments
join(path, segs) == Path(path.abs, path.segs \o segs)

\* os.path.join(root, rel): a relative path below root
join_root(root, rel) == Path(root.abs, root.segs \o rel.segs)

\* os.path.split / os.path.dirname
dirname(path) == Path(path.abs, SubSeq(path.segs, 1, Len(path.segs) - 1))
basename(path) == path.segs[Len(path.segs)]

\* os.path.splitext(name)[0]: the name up to its last dot, a leading dot
\* not counting
splitext_root(name) ==
    LET dots == {i \in 2..Len(name) : name[i] = "."}
    IN IF dots = {} THEN name ELSE SubSeq(name, 1, Max(dots) - 1)

\* path + suffix: the suffix is appended to the last segment
path_plus(path, suffix) ==
    Path(path.abs,
         [i \in 1..Len(path.segs) |->
             IF i = Len(path.segs) THEN path.segs[i] \o suffix ELSE path.segs[i]])

\* str.format(category=...) on one string
RECURSIVE format_str(_, _)
format_str(str, category) ==
    IF str = <<>> THEN <<>>
    ELSE (IF Head(str) = "{category}" THEN category ELSE <<Head(str)>>)
         \o format_str(Tail(str), category)

\* final_path.format(category=model.category)
format(path, category) ==
    Path(path.abs, [i \in 1..Len(path.segs) |-> format_str(path.segs[i], category)])

----------------------------------------------------------------------------
(* The settings and the database the controller reads *)

\* QSettings: paths/root and paths/<model type>.  The LORA directory is
\* absolute; the Checkpoint directory is relative and uses the category
\* placeholder.
settings_root == Path(TRUE, <<<<"home">>>>)

settings_paths(type) ==
    IF type = "LORA" THEN Path(TRUE, <<<<"models">>>>)
    ELSE Path(FALSE, <<<<"ckpt">>, <<"{category}">>>>)

\* os.environ.get('CIVITAI_API_KEY'): unset
api_key == ""

\* table model: a nsfw model with two versions, a model that is not nsfw with
\* one version, a model without versions
ModelRows ==
    {[id |-> 1, name |-> <<"my", " ", "lora">>, type |-> "LORA",
      category |-> <<"style">>, nsfw |-> TRUE],
     [id |-> 2, name |-> <<"base">>, type |-> "Checkpoint",
      category |-> <<"base", " ", "model">>, nsfw |-> FALSE],
     [id |-> 3, name |-> <<"empty">>, type |-> "LORA",
      category |-> <<"tool">>, nsfw |-> FALSE]}

\* table model_version
VersionRows ==
    {[id |-> 11, model_id |-> 1, name |-> <<"v1">>, base_model |-> <<"SD", " ", "1">>],
     [id |-> 12, model_id |-> 1, name |-> <<"v", " ", "2">>, base_model |-> <<"SD", " ", "1">>],
     [id |-> 21, model_id |-> 2, name |-> <<"v1">>, base_model |-> <<"XL">>]}

\* table model_image
ImageRows ==
    {[id |-> 121, model_version_id |-> 12, url |-> 121]}

\* The rows the model_file table is drawn from.  The newest version of model
\* 1 has an unsafe primary file and any of a safe primary file and a safe
\* file that is not primary; the other versions have a fixed set.
FileRow(id, vid, name, safe, prim) ==
    [id |-> id, model_version_id |-> vid, name |-> name, url |-> id,
     safe |-> safe, is_primary |-> prim]

NewestVersionFiles ==
    {FileRow(1, 12, <<"a", ".", "st">>, 1, 1),
     FileRow(2, 12, <<"b", ".", "st">>, 1, 0)}

OtherFiles ==
    {FileRow(3, 12, <<"c", ".", "pt">>, 0, 1),
     FileRow(5, 11, <<"old", ".", "st">>, 1, 1),
     FileRow(6, 21, <<"e", ".", "st">>, 1, 0),
     FileRow(7, 21, <<"f", ".", "pt">>, 0, 1)}

FileTables == {S \cup OtherFiles : S \in SUBSET NewestVersionFiles}

\* The record of a query that is positioned on no row: every value is None
NoneFile == FileRow(-1, -1, <<>>, 0, 0)

IsNone(row) == row.id = -1

----------------------------------------------------------------------------
(* controller.py: ModelDownloadController *)

\* The controller's surroundings as one value st: the files on disk, the
\* directories made, the replies handed out and the widgets of the view.
\* A run of download() ends with a value
\*   [outcome, execs, triple, asked, dir, st]:
\* how it ended ("started", "declined" or the exception raised), the queries
\* it executed, the (model, version, file) ids downloadModelFile was entered
\* with, the path the overwrite question was asked about (<<>> when it was
\* not asked), the directory of the final path, and the surroundings it left.
\* env holds what the surroundings decide during the run: env.fail the query
\* whose exec() fails, env.answer the user's answer to the overwrite
\* question.

Run(outcome, execs, triple, asked, dir, st) ==
    [outcome |-> outcome, execs |-> execs, triple |-> triple, asked |-> asked,
     dir |-> dir, st |-> st]

NoDir == Path(FALSE, <<>>)

Exec(q, ok) == [q |-> q, ok |-> ok]

\* os.makedirs(path, exist_ok=True)
makedirs(path, st) == [st EXCEPT !.dirs = @ \cup {path}]

\* os.path.exists
exists(path, st) == path \in DOMAIN st.fs

\* os.remove
remove(path, st) ==
    [st EXCEPT !.fs = [q \in DOMAIN st.fs \ {path} |-> st.fs[q]]]

\* open(path, "w") and the writes that follow
write_file(path, content, st) ==
    [st EXCEPT !.fs = [q \in DOMAIN st.fs \cup {path} |->
                          IF q = path THEN content ELSE st.fs[q]]]

Url(addr, query) == [addr |-> addr, query |-> query]

\* _download: the request is issued and its reply's signals are connected to
\* dumpBytes(temp_path, reply) and onDownloadFinished(temp_path, path)
download_request(url, path, st) ==
    LET temp_path == path_plus(path, <<".", "part">>)
        made == makedirs(dirname(path), st)
        reply == [url |-> url, temp_path |-> temp_path, path |-> path,
                  got |-> 0, state |-> "inflight"]
    IN [made EXCEPT !.replies = Append(@, reply)]

\* get_image_list: the rows of the version's images, ORDER BY id DESC
RECURSIVE SortDesc(_)
SortDesc(S) ==
    IF S = {} THEN <<>>
    ELSE LET top == CHOOSE r \in S : \A o \in S : o.id <= r.id
         IN <<top>> \o SortDesc(S \ {top})

get_image_list(model_version) ==
    SortDesc({r \in ImageRows : r.model_version_id = model_version.id})

\* hier_structure of downloadModelFile, as the segments between the slashes.
\* The conditional expression binds weaker than +: the second segment is
\* empty for a model that is not nsfw.
hier_structure(model, model_version) ==
    <<replace_space(model_version.base_model),
      IF model.nsfw THEN replace_space(model.category) \o <<"_", "nsfw">> ELSE <<>>,
      replace_space(model.name),
      replace_space(model_version.name)>>

\* The loop over the images of downloadModelFile, from the i-th image on
RECURSIVE download_images(_, _, _, _, _)
download_images(images, i, dir, filename, st) ==
    IF i > Len(images) THEN st
    ELSE LET image_path == join(dir, <<filename \o <<"_", int_str(i - 1), ".", "jpg">>>>)
         IN download_images(images, i + 1, dir, filename,
                            download_request(Url(images[i].url, ""), image_path, st))

SidecarContent(kind, model, model_version, images) ==
    <<[src |-> kind, a |-> model.id, b |-> model_version.id,
       c |-> IF Len(images) > 0 THEN images[1].id ELSE 0]>>

\* write_and_request with the sidecar files written before the image query
write_and_request_sidecars_first(model, model_version, model_file, final_path0, execs, asked, env, st) ==
    LET triple == <<model.id, model_version.id, model_file.id>>
        final_path == format(final_path0, model.category)
        dir == dirname(final_path)
        filename == splitext_root(basename(final_path))
        images == get_image_list(model_version)
        json_path == join(dir, <<filename \o <<".", "json">>>>)
        info_path == join(dir, <<filename \o <<".", "md">>>>)
        st1 == write_file(json_path, SidecarContent("json", model, model_version, images), st)
        st2 == write_file(info_path, SidecarContent("md", model, model_version, images), st1)
    IN IF env.fail = "image"
       THEN Run("RuntimeError", Append(execs, Exec("image", FALSE)), triple, asked, dir, st2)
       ELSE
         LET st3 == download_images(images, 1, dir, filename, st2)
             st4 == download_request(Url(model_file.url, api_key), final_path, st3)
             st5 == [st4 EXCEPT !.widgets =
                        Append(@, [name |-> model_file.name, reply |-> Len(st4.replies)])]
         IN Run("started", Append(execs, Exec("image", TRUE)), triple, asked, dir, st5)

\* downloadModelFile from the overwrite question on
write_and_request(model, model_version, model_file, final_path0, execs, asked, env, st) ==
    LET triple == <<model.id, model_version.id, model_file.id>>
        final_path == format(final_path0, model.category)
        dir == dirname(final_path)
        filename == splitext_root(basename(final_path))
    IN IF env.fail = "image"
       THEN Run("RuntimeError", Append(execs, Exec("image", FALSE)), triple, asked, dir, st)
       ELSE
         LET images == get_image_list(model_version)
             st1 == download_images(images, 1, dir, filename, st)
             json_path == join(dir, <<filename \o <<".", "json">>>>)
             info_path == join(dir, <<filename \o <<".", "md">>>>)
             st2 == write_file(json_path, SidecarContent("json", model, model_version, images), st1)
             st3 == write_file(info_path, SidecarContent("md", model, model_version, images), st2)
             st4 == download_request(Url(model_file.url, api_key), final_path, st3)
             st5 == [st4 EXCEPT !.widgets =
                        Append(@, [name |-> model_file.name, reply |-> Len(st4.replies)])]
         IN Run("started", Append(execs, Exec("image", TRUE)), triple, asked, dir, st5)

\* overwrite_question with the answer No not returning
overwrite_question_ignore_no(model, model_version, model_file, final_path, execs, env, st) ==
    IF exists(final_path, st)
    THEN write_and_request(model, model_version, model_file, final_path, execs,
                           <<final_path>>, env,
                           IF env.answer = "No" THEN st ELSE remove(final_path, st))
    ELSE write_and_request(model, model_version, model_file, final_path, execs, <<>>, env, st)

\* The overwrite question of downloadModelFile
overwrite_question(model, model_version, model_file, final_path, execs, env, st) ==
    IF exists(final_path, st)
    THEN IF env.answer = "No"
         THEN Run("declined", execs, <<model.id, model_version.id, model_file.id>>,
                  <<final_path>>, dirname(final_path), st)
         ELSE write_and_request(model, model_version, model_file, final_path, execs,
                                <<final_path>>, env, remove(final_path, st))
    ELSE write_and_request(model, model_version, model_file, final_path, execs, <<>>, env, st)

downloadModelFile(model, model_version, model_file, execs, env, st) ==
    LET triple == <<model.id, model_version.id, model_file.id>>
        filename == model_file.name
        root == settings_root
        setting == settings_paths(model.type)
        model_type_dir == Path(setting.abs, setting.segs \o hier_structure(model, model_version))
        st1 == makedirs(model_type_dir, st)
        final_path == IF isabs(model_type_dir)
                      THEN join(model_type_dir, <<filename>>)
                      ELSE join(join_root(root, model_type_dir), <<filename>>)
    IN IF IsNone(model_file)
       \* os.path.join with the None name of an empty record
       THEN Run("TypeError", execs, triple, <<>>, NoDir, st1)
       ELSE overwrite_question(model, model_version, model_file, final_path, execs, env, st1)

\* file_query without the condition safe = 1
file_query_any_safety(model_version) ==
    LET rows == {r \in file_table : r.model_version_id = model_version.id}
        best == {r \in rows : \A o \in rows : o.is_primary <= r.is_primary}
    IN IF best = {} THEN NoneFile ELSE CHOOSE r \in best : \A o \in best : o.id <= r.id

\* The row of the file query of downloadModelVersion: safe = 1, ORDER BY
\* is_primary DESC LIMIT 1.  (In the tables of FileTables no two safe files of
\* a version have the same is_primary: the first row is determined.)
file_query(model_version) ==
    LET safe == {r \in file_table : r.model_version_id = model_version.id /\ r.safe = 1}
        best == {r \in safe : \A o \in safe : o.is_primary <= r.is_primary}
    IN IF best = {} THEN NoneFile ELSE CHOOSE r \in best : \A o \in best : r.id <= o.id

downloadModelVersion(model, model_version, execs, env, st) ==
    IF env.fail = "file"
    THEN Run("RuntimeError", Append(execs, Exec("file", FALSE)), <<>>, <<>>, NoDir, st)
    ELSE downloadModelFile(model, model_version, file_query(model_version),
                           Append(execs, Exec("file", TRUE)), env, st)

\* The row of the version query of downloadModel: ORDER BY id DESC LIMIT 1
version_query(model) ==
    LET mine == {r \in VersionRows : r.model_id = model.id}
    IN {r \in mine : \A o \in mine : o.id <= r.id}

downloadModel(model, env, st) ==
    IF env.fail = "version"
    THEN Run("RuntimeError", <<Exec("version", FALSE)>>, <<>>, <<>>, NoDir, st)
    ELSE LET rows == version_query(model)
             execs == <<Exec("version", TRUE)>>
         IN IF rows = {}
            \* ModelVersion.from_record: json.loads of the None of an empty record
            THEN Run("TypeError", execs, <<>>, <<>>, NoDir, st)
            ELSE downloadModelVersion(model, CHOOSE r \in rows : TRUE, execs, env, st)

\* A call of a method with the positional arguments args: Python raises
\* TypeError when their number is not the number of the method's parameters
call_downloadModelVersion(args, env, st) ==
    IF Len(args) # 2 THEN Run("TypeError", <<>>, <<>>, <<>>, NoDir, st)
    ELSE downloadModelVersion(args[1], args[2], <<>>, env, st)

call_downloadModelFile(args, env, st) ==
    IF Len(args) # 3 THEN Run("TypeError", <<>>, <<>>, <<>>, NoDir, st)
    ELSE downloadModelFile(args[1], args[2], args[3], <<>>, env, st)

\* download(model): x.kind is the type of the argument, x.row the argument
download(x, env, st) ==
    IF x.kind = "Model" THEN downloadModel(x.row, env, st)
    ELSE IF x.kind = "ModelVersion" THEN call_downloadModelVersion(<<x.row>>, env, st)
    ELSE IF x.kind = "ModelFile" THEN call_downloadModelFile(<<x.row>>, env, st)
    ELSE Run("TypeError", <<>>, <<>>, <<>>, NoDir, st)

\* dumpBytes(path, reply): the bytes that arrived are appended to path
dumpBytes(path, bytes, st) ==
    write_file(path, (IF exists(path, st) THEN st.fs[path] ELSE <<>>) \o bytes, st)

\* onDownloadFinished: shutil.move(tmp_path, final_path); FileNotFoundError
\* when tmp_path does not exist
onDownloadFinished(tmp_path, final_path, st) ==
    IF exists(tmp_path, st)
    THEN [ok |-> TRUE, st |-> remove(tmp_path, write_file(final_path, st.fs[tmp_path], st))]
    ELSE [ok |-> FALSE, st |-> st]

----------------------------------------------------------------------------
(* The controller at rest, and the page deserialiser's specification *)

NoCall == [kind |-> "none", id |-> 0, outcome |-> "none", execs |-> <<>>,
           triple |-> <<>>, asked |-> <<>>, answer |-> "none", dir |-> NoDir]

EmptyFs == [p \in {} |-> <<>>]

CtlIdle ==
    /\ file_table = {}
    /\ fs = EmptyFs
    /\ dirs = {}
    /\ replies = <<>>
    /\ widgets = <<>>
    /\ last = NoCall
    /\ ncalls = 0

PageInit ==
    /\ page \in Pages
    /\ now \in {3, 9}
    /\ tick = 0
    /\ result = NoPage
    /\ CtlIdle

\* One call of deserialise_items on the page
Deserialise ==
    /\ ~result.returned
    /\ \E t \in TickPoints(page) :
          /\ tick' = t
          /\ result' = [returned |-> TRUE,
                        page |-> deserialise_items(page, [now |-> now, tick |-> t])]
    /\ UNCHANGED <<page, now>>
    /\ UNCHANGED ctlVars

PageNext == Deserialise

PageSpec == PageInit /\ [][PageNext]_vars

----------------------------------------------------------------------------
(* The download controller's specification *)

Init ==
    /\ page = <<>>
    /\ now = 0
    /\ tick = 0
    /\ result = NoPage
    /\ file_table \in FileTables
    /\ fs = EmptyFs
    /\ dirs = {}
    /\ replies = <<>>
    /\ widgets = <<>>
    /\ last = NoCall
    /\ ncalls = 0

St == [fs |-> fs, dirs |-> dirs, replies |-> replies, widgets |-> widgets]

\* What download() may be called with: a row of the database as a Model, a
\* ModelVersion or a ModelFile, or a value of another type
Args ==
    {[kind |-> "Model", row |-> m] : m \in ModelRows}
    \cup {[kind |-> "ModelVersion", row |-> v] : v \in VersionRows}
    \cup {[kind |-> "ModelFile", row |-> f] : f \in file_table}
    \cup {[kind |-> "str", row |-> [id |-> 0]]}

Envs == [fail : {"none", "version", "file", "image"}, answer : {"Yes", "No"}]

\* One call of download(x), from entry to return or raise
Download ==
    /\ ncalls < MaxCalls
    /\ \E x \in Args, env \in Envs :
          LET run == download(x, env, St)
          IN /\ fs' = run.st.fs
             /\ dirs' = run.st.dirs
             /\ replies' = run.st.replies
             /\ widgets' = run.st.widgets
             /\ last' = [kind |-> x.kind, id |-> x.row.id, outcome |-> run.outcome,
                         execs |-> run.execs, triple |-> run.triple, asked |-> run.asked,
                         answer |-> IF run.asked # <<>> THEN env.answer ELSE "none",
                         dir |-> run.dir]
    /\ ncalls' = ncalls + 1
    /\ UNCHANGED <<file_table>>
    /\ UNCHANGED dataVars

RECURSIVE TotalGot(_)
TotalGot(rs) == IF rs = <<>> THEN 0 ELSE Head(rs).got + TotalGot(Tail(rs))

Chunk(r, k) == [src |-> "reply", a |-> r, b |-> k, c |-> 0]

\* readyRead of reply r: its slot dumpBytes(temp_path, reply) runs
ReadyRead(r) ==
    /\ replies[r].state = "inflight"
    /\ TotalGot(replies) < MaxChunks
    /\ LET st == dumpBytes(replies[r].temp_path, <<Chunk(r, replies[r].got + 1)>>, St)
       IN fs' = st.fs
    /\ replies' = [replies EXCEPT ![r].got = @ + 1]
    /\ UNCHANGED <<file_table, dirs, widgets, last, ncalls>>
    /\ UNCHANGED dataVars

\* finished of reply r: its slot onDownloadFinished(temp_path, path) runs
Finished(r) ==
    /\ replies[r].state = "inflight"
    /\ LET res == onDownloadFinished(replies[r].temp_path, replies[r].path, St)
       IN /\ fs' = res.st.fs
          /\ replies' = [replies EXCEPT ![r].state =
                            IF res.ok THEN "finished" ELSE "FileNotFoundError"]
    /\ UNCHANGED <<file_table, dirs, widgets, last, ncalls>>
    /\ UNCHANGED dataVars

Next ==
    \/ Download
    \/ \E r \in 1..Len(replies) : ReadyRead(r)
    \/ \E r \in 1..Len(replies) : Finished(r)

Spec == Init /\ [][Next]_vars

----------------------------------------------------------------------------
(* Claims about deserialise_items (under PageSpec) *)

Rows(seq) == {seq[i] : i \in 1..Len(seq)}

Ids(seq) == [i \in 1..Len(seq) |-> seq[i].id]

HasVersions(model_data) == Len(model_data.modelVersions) > 0

\* The models of the input page that have at least one version, in input order
RetainedInput == SelectSeq(page, HasVersions)

\* C1: the Page returned by deserialise_items is referentially closed: every
\* file and every image row carries the id of a version row of the page with
\* the same model_id, and every version row carries the id of a model row of
\* the page.
C1_ReferentiallyClosed ==
    result.returned =>
        LET P == result.page
        IN /\ \A f \in Rows(P.files) \cup Rows(P.images) :
                \E v \in Rows(P.versions) :
                    v.id = f.model_version_id /\ v.model_id = f.model_id
           /\ \A v \in Rows(P.versions) :
                \E m \in Rows(P.models) : m.id = v.model_id

C1_Witness ==
    /\ result.returned
    /\ Len(result.page.models) >= 2
    /\ Len(result.page.files) >= 1
    /\ Len(result.page.images) >= 1

\* C2: a model whose modelVersions list is empty is dropped entirely (no
\* model row, no version, file or image row with its id), while the models
\* with at least one version appear exactly once each, in input order.
C2_EmptyModelDropped ==
    result.returned =>
        LET P == result.page
        IN /\ \A i \in 1..Len(page) :
                ~HasVersions(page[i]) =>
                    /\ \A m \in Rows(P.models) : m.id # page[i].id
                    /\ \A r \in Rows(P.versions) \cup Rows(P.files) \cup Rows(P.images) :
                          r.model_id # page[i].id
           /\ Ids(P.models) = Ids(RetainedInput)

C2_Witness ==
    /\ result.returned
    /\ Len(page) >= 3
    /\ ~HasVersions(page[2])
    /\ HasVersions(page[1])
    /\ HasVersions(page[3])
    /\ Len(result.page.models) = 2

\* The files of one input model that pass the safety check, in input order
SafeInputFiles(model_data) ==
    Concat([j \in 1..Len(model_data.modelVersions) |->
               SelectSeq(model_data.modelVersions[j].files, is_file_safe)])

\* C3: Page.files holds exactly the files of the retained models' versions
\* for which the safety check is true, in input order, and every row of
\* Page.files has safe = TRUE.
C3_OnlySafeFiles ==
    result.returned =>
        LET P == result.page
        IN /\ Ids(P.files) =
                Ids(Concat([i \in 1..Len(RetainedInput) |-> SafeInputFiles(RetainedInput[i])]))
           /\ \A f \in Rows(P.files) : f.safe = TRUE

C3_Witness ==
    /\ result.returned
    /\ Len(result.page.files) >= 2
    /\ \E i \in 1..Len(page) : \E j \in 1..Len(page[i].modelVersions) :
          LET fl == page[i].modelVersions[j].files
          IN Len(fl) >= 3 /\ ~is_file_safe(fl[2]) /\ is_file_safe(fl[1]) /\ is_file_safe(fl[3])

Present(d) == d # None /\ d # EmptyStr

\* The timestamp the fallback chain gives one version, with t the current time
ChainTimestamp(version, t) ==
    LET chain == <<version.updatedAt, version.publishedAt, version.createdAt>>
        present == {i \in 1..3 : Present(chain[i])}
        first == CHOOSE i \in present : \A k \in present : i <= k
        scans == {parse_timestamp(f.scannedAt) :
                     f \in {g \in Rows(version.files) : Present(g.scannedAt)}}
    IN IF present # {} THEN parse_timestamp(chain[first])
       ELSE IF scans # {} THEN Max(scans)
       ELSE t

\* C4: the updated_at of a model is the maximum over its versions of the
\* per-version timestamp, which is the first present value in the chain
\* updatedAt, publishedAt, createdAt, max(file scannedAt), current time.
C4_TimestampFallback ==
    result.returned =>
        \A i \in 1..Len(RetainedInput) :
            LET data == RetainedInput[i]
                n == Len(data.modelVersions)
            IN \E t \in [1..n -> {now, now + 1}] :
                  result.page.models[i].updated_at =
                      Max({ChainTimestamp(data.modelVersions[j], t[j]) : j \in 1..n})

C4_Witness ==
    /\ result.returned
    /\ Len(page) = 1
    /\ Len(page[1].modelVersions) = 2
    /\ page[1].modelVersions[1].updatedAt = EmptyStr
    /\ page[1].modelVersions[1].publishedAt = None
    /\ page[1].modelVersions[1].createdAt = Iso(6, "+02:00")
    /\ page[1].modelVersions[2].updatedAt = None
    /\ page[1].modelVersions[2].publishedAt = Iso(5, "Z")
    /\ result.page.models[1].updated_at = 5

----------------------------------------------------------------------------
(* Claims about ModelDownloadController (under Spec) *)

DownloadKinds == {"Model", "ModelVersion", "ModelFile"}

SafeFilesOf(version_id) ==
    {r \in file_table : r.model_version_id = version_id /\ r.safe = 1}

NewestVersionOf(model_id) ==
    {v \in VersionRows : v.model_id = model_id
                         /\ \A o \in VersionRows : o.model_id = model_id => o.id <= v.id}

\* The last call's argument names a file the controller can resolve: a
\* ModelFile, a ModelVersion with a safe file, or a Model whose newest version
\* has a safe file
LastResolvable ==
    \/ last.kind = "ModelFile"
    \/ last.kind = "ModelVersion" /\ SafeFilesOf(last.id) # {}
    \/ last.kind = "Model" /\ \E v \in NewestVersionOf(last.id) : SafeFilesOf(v.id) # {}

NoExecFailed(call) == \A i \in 1..Len(call.execs) : call.execs[i].ok

\* C5 (as claimed): download(x) with a Model, a ModelVersion or a ModelFile
\* reaches downloadModelFile with a (model, version, file) triple and starts
\* the download of that file (no query failing, no overwrite declined).
C5_EveryKindReachesDownloadModelFile ==
    (/\ last.kind \in DownloadKinds
     /\ LastResolvable
     /\ NoExecFailed(last)
     /\ last.answer # "No")
    => (last.outcome = "started" /\ Len(last.triple) = 3)

Unchanged(path) ==
    /\ path \in DOMAIN fs' <=> path \in DOMAIN fs
    /\ path \in DOMAIN fs => fs'[path] = fs[path]

NothingWritten == \A q \in DOMAIN fs' : q \in DOMAIN fs /\ fs'[q] = fs[q]

\* C6: download(x) with x of another type raises TypeError, a query whose
\* exec() fails raises RuntimeError, and in both cases the call has issued no
\* network request and written no file when the error is raised.
C6_ErrorsLeaveNoDownload ==
    [][ncalls' = ncalls + 1 =>
         /\ last'.kind \notin DownloadKinds => last'.outcome = "TypeError"
         /\ ~NoExecFailed(last') => last'.outcome = "RuntimeError"
         /\ (last'.kind \notin DownloadKinds \/ last'.outcome = "RuntimeError") =>
               /\ replies' = replies
               /\ widgets' = widgets
               /\ NothingWritten]_vars

\* the image query fails after the user agreed to overwrite an existing file
C6_Witness ==
    /\ last.outcome = "RuntimeError"
    /\ last.asked # <<>>
    /\ Len(last.execs) = 3
    /\ ~last.execs[3].ok
    /\ last.asked[1] \notin DOMAIN fs

ChunksOf(r) == [k \in 1..replies'[r].got |-> Chunk(r, k)]

\* No other reply was ever started for the same path
Exclusive(r) == \A o \in 1..Len(replies) : o # r => replies[o].path # replies[r].path

\* C7 (as claimed): each chunk is appended to <path>.part in arrival order,
\* nothing is written to <path> before finished, and after finished <path>
\* holds exactly the chunks received and <path>.part no longer exists; for
\* every sequence of chunks, the empty one included.
C7_StreamsThroughPartFile ==
    [][\A r \in 1..Len(replies) :
          LET tmp == replies[r].temp_path
              path == replies[r].path
          IN Exclusive(r) /\ Len(replies') = Len(replies) =>
               /\ replies'[r].got = replies[r].got + 1 =>
                     /\ tmp \in DOMAIN fs'
                     /\ fs'[tmp] = ChunksOf(r)
                     /\ Unchanged(path)
               /\ (replies[r].state = "inflight" /\ replies'[r].state # "inflight") =>
                     /\ path \in DOMAIN fs'
                     /\ fs'[path] = ChunksOf(r)
                     /\ tmp \notin DOMAIN fs']_vars

FileRowOf(id) == CHOOSE r \in file_table \cup {NoneFile} : r.id = id

\* C8: starting from a Model, downloadModelFile is entered with the model's
\* version of greatest id and with a safe file of that version, a primary one
\* whenever the version has a safe primary file; when the version has a safe
\* file an unsafe one is never chosen.
C8_NewestVersionSafeFile ==
    (last.kind = "Model" /\ Len(last.triple) = 3) =>
        LET vid == last.triple[2]
            file == FileRowOf(last.triple[3])
        IN /\ last.triple[1] = last.id
           /\ \E v \in NewestVersionOf(last.id) : v.id = vid
           /\ SafeFilesOf(vid) # {} => file \in SafeFilesOf(vid)
           /\ (\E f \in SafeFilesOf(vid) : f.is_primary = 1) => file.is_primary = 1
           /\ SafeFilesOf(vid) = {} => IsNone(file)

\* the newest version has an unsafe primary file and a safe file that is not
\* primary, and the safe one is downloaded
C8_Witness ==
    /\ last.kind = "Model"
    /\ last.outcome = "started"
    /\ last.triple = <<1, 12, 2>>
    /\ \E f \in file_table : f.model_version_id = 12 /\ f.safe = 0 /\ f.is_primary = 1

ModelRowOf(id) == CHOOSE m \in ModelRows : m.id = id
VersionRowOf(id) == CHOOSE v \in VersionRows : v.id = id

Underscored(name) == [i \in 1..Len(name) |-> IF name[i] = " " THEN "_" ELSE name[i]]

\* The configured directory of a model's type: below paths/root when it is
\* relative, its placeholder filled in
ConfiguredDir(model) ==
    LET setting == settings_paths(model.type)
        rooted == IF setting.abs THEN setting.segs ELSE settings_root.segs \o setting.segs
    IN [i \in 1..Len(rooted) |-> format_str(rooted[i], model.category)]

\* C9 (as claimed): the destination directory is the configured directory of
\* the model's type followed by four non-empty segments with spaces replaced
\* by underscores: base model, category (with _nsfw appended for a nsfw
\* model), model name, version name; the category is there for every model.
C9_DestinationDirectory ==
    last.outcome = "started" =>
        LET model == ModelRowOf(last.triple[1])
            version == VersionRowOf(last.triple[2])
            four == <<Underscored(version.base_model),
                      Underscored(model.category)
                          \o (IF model.nsfw THEN <<"_", "nsfw">> ELSE <<>>),
                      Underscored(model.name),
                      Underscored(version.name)>>
        IN /\ last.dir.segs = ConfiguredDir(model) \o four
           /\ \A i \in 1..4 : four[i] # <<>>

\* C10: when the destination exists and the user answers No, the call leaves
\* the files, the replies and the widgets as they were; when the user
\* answers Yes, the existing file is removed.
C10_OverwriteQuestion ==
    [][(ncalls' = ncalls + 1 /\ last'.asked # <<>>) =>
         LET path == last'.asked[1]
         IN /\ path \in DOMAIN fs
            /\ last'.answer = "No" =>
                  /\ last'.outcome = "declined"
                  /\ fs' = fs
                  /\ replies' = replies
                  /\ widgets' = widgets
            /\ last'.answer = "Yes" => path \notin DOMAIN fs']_vars

C10_Witness ==
    /\ last.asked # <<>>
    /\ last.answer = "No"
    /\ last.outcome = "declined"
    /\ last.asked[1] \in DOMAIN fs

AllFinished == replies # <<>> /\ \A r \in 1..Len(replies) : replies[r].state # "inflight"

\* The bytes reply r received, in the order they arrived
BytesOf(r) == [k \in 1..replies[r].got |-> Chunk(r, k)]

\* The replies some of whose bytes are in the file at path
WritersOf(path) == {fs[path][i].a : i \in {j \in 1..Len(fs[path]) : fs[path][j].src = "reply"}}

\* C11 (as claimed): downloads in flight at the same time do not corrupt one
\* another: the bytes of a reply are only in the .part file or the
\* destination file of its own download, and after all replies have finished
\* every destination file holds exactly the bytes of one single reply, in
\* order; also when the same model file is requested again while its first
\* download is in flight.
C11_NoCorruption ==
    /\ \A q \in DOMAIN fs : \A r \in WritersOf(q) :
          q \in {replies[r].temp_path, replies[r].path}
    /\ AllFinished =>
          \A r \in 1..Len(replies) :
              replies[r].path \in DOMAIN fs =>
                  \E o \in 1..Len(replies) :
                      /\ replies[o].path = replies[r].path
                      /\ fs[replies[r].path] = BytesOf(o)

====
